---- MODULE Spec2Model ----
(***************************************************************************)
(* Model of the Hello World plugin (src/src/lib.rs): the plugin's          *)
(* lifecycle state, its settings store behind a read/write lock, and the   *)
(* registration of its four hook handlers with the shared hook registry.   *)
(* Host threads call the plugin's methods concurrently; every access to a  *)
(* lock-protected field is a step of the calling thread.                   *)
(***************************************************************************)
EXTENDS Integers, Sequences, FiniteSets, TLC

\* ---------------------------------------------------------------- bounds
NumThreads == 2
MaxActivations == 2
MaxUpdates == 2
MaxForeign == 3
MaxMutations == 2

Threads == 1..NumThreads

\* ------------------------------------------------------------ data model
Inactive == "Inactive"
Active == "Active"
PluginState == {Inactive, Active}

HelloWorldSettings(g, d, c) == [greeting_text |-> g, show_date |-> d, custom_css |-> c]

\* defaults that do not show the date
DefaultSettingsNoDate == HelloWorldSettings("Hello, World!", FALSE, "")

DefaultSettings == HelloWorldSettings("Hello, World!", TRUE, "")

\* the value written by tests::test_update_settings
HowdySettings == HelloWorldSettings("Howdy!", FALSE, ".test { color: red; }")

\* a third value, so that two successive writes can differ from each other
HiSettings == HelloWorldSettings("Hi!", TRUE, ".hi { }")

\* the arguments update_settings is called with
SettingsValues == {DefaultSettings, HowdySettings, HiSettings}

\* what a handler is given at dispatch time: the content to filter and the
\* formatted value of Utc::now()
Contents == {"", "post"}
Dates == {"January 01, 2026", "November 03, 2026"}

DefaultCss == "\n.hello-world-greeting { padding: 20px; background: linear-gradient(135deg, #667eea 0%, #764ba2 100%); color: white; border-radius: 8px; margin: 20px 0; font-size: 1.5em; text-align: center; }\n.hello-world-date { text-align: center; color: #666; font-style: italic; }\n.hello-world-widget { background: #f5f5f5; padding: 15px; border-radius: 4px; }\n"

\* ------------------------------------------------------- handler closures
\* the closure of register_shortcodes, over its captured settings
ShortcodeHello(s, content, date) ==
    "<div class=\"hello-world-greeting\">" \o s.greeting_text \o "</div>"
    \o (IF s.show_date
        THEN "<div class=\"hello-world-date\">Today is " \o date \o "</div>"
        ELSE "")

\* the closure of register_widgets, over its captured settings
WidgetHelloWorld(s, content) ==
    "<div class=\"widget hello-world-widget\">\n<h3 class=\"widget-title\">Greeting</h3>\n<div class=\"widget-content\">\n<p>"
    \o s.greeting_text \o "</p>\n</div>\n</div>"

\* the closure of add_head_css, over its captured settings: the text it prints
WpHead(s) ==
    "<style>"
    \o (IF s.custom_css = "" THEN DefaultCss ELSE s.custom_css)
    \o "</style>"

\* the closure of add_content_filter: captures nothing
TheContent(content) ==
    content
    \o "\n<div class=\"hello-world-footer\" style=\"font-size: 0.8em; color: #999; margin-top: 20px; padding-top: 10px; border-top: 1px solid #eee;\">\nPowered by Hello World Plugin\n</div>"

\* ------------------------------------------------------------ hook registry
\* The shared HookRegistry of rustpress_core.  An entry is one registered
\* handler: the hook name, the handler kind, the priority, and the closure
\* (fn names the closure's code, snap holds the settings value it captured,
\* tag the identifier a foreign handler appends).  owner is bookkeeping of the
\* model: the activation that registered the entry, 0 for another plugin's.
Closure(fn, snap, tag) == [fn |-> fn, snap |-> snap, tag |-> tag]

Entry(name, kind, priority, handler, owner) ==
    [hook |-> name, kind |-> kind, priority |-> priority,
     handler |-> handler, owner |-> owner]

add_filter(reg, name, handler, priority, owner) ==
    Append(reg, Entry(name, "filter", priority, handler, owner))

add_action(reg, name, handler, priority, owner) ==
    Append(reg, Entry(name, "action", priority, handler, owner))

\* running one closure on a value
Call(h, content, date) ==
    CASE h.fn = "shortcode_hello" -> ShortcodeHello(h.snap[1], content, date)
      [] h.fn = "widget_hello_world" -> WidgetHelloWorld(h.snap[1], content)
      [] h.fn = "wp_head" -> content \o WpHead(h.snap[1])
      [] h.fn = "the_content" -> TheContent(content)
      [] OTHER -> content \o h.tag

Matching(reg, name, kind) ==
    {i \in DOMAIN reg : reg[i].hook = name /\ reg[i].kind = kind}

\* i runs before j: priority ascending, then registration sequence ascending
RunsBefore(reg, i, j) ==
    \/ reg[i].priority < reg[j].priority
    \/ reg[i].priority = reg[j].priority /\ i < j

\* the indices of the handlers of a hook, in the order dispatch runs them
DispatchOrder(reg, name, kind) ==
    LET S == Matching(reg, name, kind)
        Rank(i) == Cardinality({j \in S : RunsBefore(reg, j, i)}) + 1
    IN  [k \in 1..Cardinality(S) |-> CHOOSE i \in S : Rank(i) = k]

RECURSIVE Fold(_, _, _, _, _)
Fold(reg, order, k, value, date) ==
    IF k > Len(order) THEN value
    ELSE Fold(reg, order, k + 1, Call(reg[order[k]].handler, value, date), date)

apply_filters(reg, name, initial, date) ==
    Fold(reg, DispatchOrder(reg, name, "filter"), 1, initial, date)

\* the text the action handlers of a hook print, in dispatch order
run_action(reg, name, date) ==
    Fold(reg, DispatchOrder(reg, name, "action"), 1, "", date)

HookNames == {"shortcode_hello", "widget_hello_world", "wp_head", "the_content"}

Dispatch(reg, name, content, date) ==
    IF name = "wp_head" THEN run_action(reg, name, date)
    ELSE apply_filters(reg, name, content, date)

\* ------------------------------------------------------------------ state
VARIABLES
    info,       \* HelloWorldPlugin.info
    state,      \* HelloWorldPlugin.state
    settings,   \* HelloWorldPlugin.settings, the value behind the lock
    sReaders,   \* threads holding the settings lock for reading
    sWriter,    \* the thread holding the settings lock for writing, or 0
    registry,   \* the shared HookRegistry: entries in registration order
    rReaders,   \* threads holding the registry's outer lock for reading
    nActs,      \* activate() calls so far
    nUpdates,   \* update_settings() calls so far
    nForeign,   \* handlers other plugins have registered so far
    pc,         \* where each thread is
    op,         \* the method each thread is in, or last returned from
    ctx,        \* activate: whether the context provides the registry
    arg,        \* update_settings: the argument
    old,        \* update_settings: the value stored when the lock was taken
    tmp,        \* the clone of the settings a thread is making
    aid,        \* activate: the number of this activation
    hook,       \* dispatch: the hook name
    seen,       \* info(): the identity the caller was given
    ret         \* the value the thread's last call returned

vars == <<info, state, settings, sReaders, sWriter, registry, rReaders, nActs,
          nUpdates, nForeign, pc, op, ctx, arg, old, tmp, aid, hook, seen, ret>>

shared == <<info, state, settings, sReaders, sWriter, registry, rReaders>>
counters == <<nActs, nUpdates, nForeign>>
locals == <<ctx, arg, old, tmp, aid, hook, seen, ret>>

NoSettings == HelloWorldSettings("", FALSE, "")

PluginInfo(id, name, version, description, author) ==
    [id |-> id, name |-> name, version |-> version,
     description |-> description, author |-> author]

\* an identity built with another id
NewInfoOtherId ==
    PluginInfo("hello_world", "Hello World", <<1, 0, 0>>,
               "A simple example plugin that adds a greeting shortcode and widget",
               "RustPress Team")

\* the identity HelloWorldPlugin::new builds
NewInfo ==
    PluginInfo("hello-world", "Hello World", <<1, 0, 0>>,
               "A simple example plugin that adds a greeting shortcode and widget",
               "RustPress Team")

NoInfo == PluginInfo("", "", <<>>, "", "")

\* HelloWorldPlugin::new, with an empty registry and every thread idle
Init ==
    /\ info = NewInfo
    /\ state = Inactive
    /\ settings = DefaultSettings
    /\ sReaders = {}
    /\ sWriter = 0
    /\ registry = <<>>
    /\ rReaders = {}
    /\ nActs = 0
    /\ nUpdates = 0
    /\ nForeign = 0
    /\ pc = [t \in Threads |-> "idle"]
    /\ op = [t \in Threads |-> ""]
    /\ ctx = [t \in Threads |-> FALSE]
    /\ arg = [t \in Threads |-> NoSettings]
    /\ old = [t \in Threads |-> NoSettings]
    /\ tmp = [t \in Threads |-> NoSettings]
    /\ aid = [t \in Threads |-> 0]
    /\ hook = [t \in Threads |-> ""]
    /\ seen = [t \in Threads |-> NoInfo]
    /\ ret = [t \in Threads |-> ""]

\* ------------------------------------------------------- the settings lock
\* self.settings.read().clone(): the guard is taken when no writer holds the
\* lock, the three fields are cloned one after the other, and the guard is
\* dropped at the end of the statement.
ReadLockGreeting(t, next) ==
    /\ sWriter = 0
    /\ sReaders' = sReaders \cup {t}
    /\ tmp' = [tmp EXCEPT ![t] =
                 [NoSettings EXCEPT !.greeting_text = settings.greeting_text]]
    /\ pc' = [pc EXCEPT ![t] = next]
    /\ UNCHANGED <<info, state, settings, sWriter, registry, rReaders, counters,
                   op, ctx, arg, old, aid, hook, ret, seen>>

ReadShowDate(t, next) ==
    /\ tmp' = [tmp EXCEPT ![t].show_date = settings.show_date]
    /\ pc' = [pc EXCEPT ![t] = next]
    /\ UNCHANGED <<shared, counters, op, ctx, arg, old, aid, hook, ret, seen>>

\* a clone whose read guard is never dropped
ReadCssKeepLock(t, next) ==
    /\ tmp' = [tmp EXCEPT ![t].custom_css = settings.custom_css]
    /\ sReaders' = sReaders
    /\ pc' = [pc EXCEPT ![t] = next]
    /\ UNCHANGED <<info, state, settings, sWriter, registry, rReaders, counters,
                   op, ctx, arg, old, aid, hook, ret, seen>>

ReadCssUnlock(t, next) ==
    /\ tmp' = [tmp EXCEPT ![t].custom_css = settings.custom_css]
    /\ sReaders' = sReaders \ {t}
    /\ pc' = [pc EXCEPT ![t] = next]
    /\ UNCHANGED <<info, state, settings, sWriter, registry, rReaders, counters,
                   op, ctx, arg, old, aid, hook, ret, seen>>

\* a write guard that does not wait for the readers to leave
WriteLockIgnoresReaders == sWriter = 0

\* self.settings.write(): granted when nobody holds the lock
WriteLockFree == sWriter = 0 /\ sReaders = {}

\* a thread enters a method
Enter(t, name, first) ==
    /\ pc[t] = "idle"
    /\ pc' = [pc EXCEPT ![t] = first]
    /\ op' = [op EXCEPT ![t] = name]

\* pub fn settings(&self) -> HelloWorldSettings
GetSettings(t) ==
    \/ /\ Enter(t, "settings", "s1")
       /\ UNCHANGED <<shared, counters, locals>>
    \/ pc[t] = "s1" /\ ReadLockGreeting(t, "s2")
    \/ pc[t] = "s2" /\ ReadShowDate(t, "s3")
    \/ pc[t] = "s3" /\ ReadCssUnlock(t, "done")

\* an update that keeps the stored custom_css when the new one is empty
ReplaceMerging(stored, new) ==
    [new EXCEPT !.custom_css = IF new.custom_css = "" THEN stored.custom_css
                               ELSE new.custom_css]

\* the value update_settings leaves in the store: its argument, whatever the
\* store held
Replace(stored, new) == new

\* *self.settings.write() = settings: the write guard is taken, the argument
\* is moved into place field by field, and the guard is dropped
WriteLockGreeting(t) ==
    /\ pc[t] = "u1"
    /\ WriteLockFree
    /\ sWriter' = t
    /\ old' = [old EXCEPT ![t] = settings]
    /\ settings' = [settings EXCEPT
                      !.greeting_text = Replace(settings, arg[t]).greeting_text]
    /\ pc' = [pc EXCEPT ![t] = "u2"]
    /\ UNCHANGED <<info, state, sReaders, registry, rReaders, counters,
                   op, ctx, arg, tmp, aid, hook, ret, seen>>

WriteShowDate(t) ==
    /\ pc[t] = "u2"
    /\ settings' = [settings EXCEPT
                      !.show_date = Replace(old[t], arg[t]).show_date]
    /\ pc' = [pc EXCEPT ![t] = "u3"]
    /\ UNCHANGED <<info, state, sReaders, sWriter, registry, rReaders, counters,
                   op, ctx, arg, old, tmp, aid, hook, ret, seen>>

\* closures that hold a reference to the live settings: the last step of an
\* update shows in every handler that captured settings
WriteCssUnlockLive(t) ==
    /\ pc[t] = "u3"
    /\ settings' = [settings EXCEPT
                      !.custom_css = Replace(old[t], arg[t]).custom_css]
    /\ registry' = [i \in DOMAIN registry |->
                      IF registry[i].handler.snap = <<>> THEN registry[i]
                      ELSE [registry[i] EXCEPT !.handler.snap = <<arg[t]>>]]
    /\ sWriter' = 0
    /\ pc' = [pc EXCEPT ![t] = "done"]
    /\ UNCHANGED <<info, state, sReaders, rReaders, counters,
                   op, ctx, arg, old, tmp, aid, hook, ret, seen>>

WriteCssUnlock(t) ==
    /\ pc[t] = "u3"
    /\ settings' = [settings EXCEPT
                      !.custom_css = Replace(old[t], arg[t]).custom_css]
    /\ registry' = registry
    /\ sWriter' = 0
    /\ pc' = [pc EXCEPT ![t] = "done"]
    /\ UNCHANGED <<info, state, sReaders, rReaders, counters,
                   op, ctx, arg, old, tmp, aid, hook, ret, seen>>

\* pub fn update_settings(&self, settings: HelloWorldSettings)
update_settings(t) ==
    \/ /\ Enter(t, "update_settings", "u1")
       /\ nUpdates < MaxUpdates
       /\ \E s \in SettingsValues : arg' = [arg EXCEPT ![t] = s]
       /\ nUpdates' = nUpdates + 1
       /\ UNCHANGED <<shared, nActs, nForeign, ctx, old, tmp, aid, hook, ret, seen>>
    \/ WriteLockGreeting(t)
    \/ WriteShowDate(t)
    \/ WriteCssUnlock(t)

\* ------------------------------------------------------------ registration
\* one call of hooks.add_filter / hooks.add_action by thread t: the closure
\* takes the clone with it
Register(t, reg, next) ==
    /\ registry' = reg
    /\ tmp' = [tmp EXCEPT ![t] = NoSettings]
    /\ pc' = [pc EXCEPT ![t] = next]
    /\ UNCHANGED <<info, state, settings, sReaders, sWriter, rReaders, counters,
                   op, ctx, arg, old, aid, hook, ret, seen>>

\* fn register_shortcodes(&self, hooks: &HookRegistry)
register_shortcodes(t) ==
    \/ pc[t] = "sc1" /\ ReadLockGreeting(t, "sc2")
    \/ pc[t] = "sc2" /\ ReadShowDate(t, "sc3")
    \/ pc[t] = "sc3" /\ ReadCssUnlock(t, "sc_add")
    \/ /\ pc[t] = "sc_add"
       /\ Register(t, add_filter(registry, "shortcode_hello",
                                 Closure("shortcode_hello", <<tmp[t]>>, ""),
                                 10, aid[t]), "wi1")

\* a widget built from the default settings instead of the stored ones
register_widgets_default(t) ==
    \/ pc[t] = "wi1" /\ ReadLockGreeting(t, "wi2")
    \/ pc[t] = "wi2" /\ ReadShowDate(t, "wi3")
    \/ pc[t] = "wi3" /\ ReadCssUnlock(t, "wi_add")
    \/ /\ pc[t] = "wi_add"
       /\ Register(t, add_filter(registry, "widget_hello_world",
                                 Closure("widget_hello_world",
                                         <<DefaultSettings>>, ""),
                                 10, aid[t]), "hc1")

\* fn register_widgets(&self, hooks: &HookRegistry)
register_widgets(t) ==
    \/ pc[t] = "wi1" /\ ReadLockGreeting(t, "wi2")
    \/ pc[t] = "wi2" /\ ReadShowDate(t, "wi3")
    \/ pc[t] = "wi3" /\ ReadCssUnlock(t, "wi_add")
    \/ /\ pc[t] = "wi_add"
       /\ Register(t, add_filter(registry, "widget_hello_world",
                                 Closure("widget_hello_world", <<tmp[t]>>, ""),
                                 10, aid[t]), "hc1")

\* the head css registered as a filter instead of an action
add_head_css_as_filter(t) ==
    \/ pc[t] = "hc1" /\ ReadLockGreeting(t, "hc2")
    \/ pc[t] = "hc2" /\ ReadShowDate(t, "hc3")
    \/ pc[t] = "hc3" /\ ReadCssUnlock(t, "hc_add")
    \/ /\ pc[t] = "hc_add"
       /\ Register(t, add_filter(registry, "wp_head",
                                 Closure("wp_head", <<tmp[t]>>, ""),
                                 10, aid[t]), "cf_add")

\* fn add_head_css(&self, hooks: &HookRegistry)
add_head_css(t) ==
    \/ pc[t] = "hc1" /\ ReadLockGreeting(t, "hc2")
    \/ pc[t] = "hc2" /\ ReadShowDate(t, "hc3")
    \/ pc[t] = "hc3" /\ ReadCssUnlock(t, "hc_add")
    \/ /\ pc[t] = "hc_add"
       /\ Register(t, add_action(registry, "wp_head",
                                 Closure("wp_head", <<tmp[t]>>, ""),
                                 10, aid[t]), "cf_add")

\* the content filter registered at a priority that runs first
add_content_filter_first(t) ==
    /\ pc[t] = "cf_add"
    /\ Register(t, add_filter(registry, "the_content",
                              Closure("the_content", <<>>, ""),
                              5, aid[t]), "a_drop")

\* fn add_content_filter(&self, hooks: &HookRegistry)
add_content_filter(t) ==
    /\ pc[t] = "cf_add"
    /\ Register(t, add_filter(registry, "the_content",
                              Closure("the_content", <<>>, ""),
                              99, aid[t]), "a_drop")

\* --------------------------------------------------------------- lifecycle
\* an activation that writes the Active state before it registers
GetRegistryActiveFirst(t) ==
    /\ pc[t] = "a_get"
    /\ IF ctx[t]
       THEN /\ rReaders' = rReaders \cup {t}
            /\ state' = Active
            /\ pc' = [pc EXCEPT ![t] = "sc1"]
       ELSE /\ rReaders' = rReaders
            /\ state' = state
            /\ pc' = [pc EXCEPT ![t] = "a_state"]
    /\ UNCHANGED <<info, settings, sReaders, sWriter, registry, counters,
                   op, locals>>

\* an activation that registers whether or not the context has a registry
GetRegistryAlways(t) ==
    /\ pc[t] = "a_get"
    /\ rReaders' = rReaders \cup {t}
    /\ pc' = [pc EXCEPT ![t] = "sc1"]
    /\ UNCHANGED <<info, state, settings, sReaders, sWriter, registry, counters,
                   op, locals>>

\* an activation that fails when the context has no registry
GetRegistryOrFail(t) ==
    /\ pc[t] = "a_get"
    /\ IF ctx[t]
       THEN /\ rReaders' = rReaders \cup {t}
            /\ pc' = [pc EXCEPT ![t] = "sc1"]
            /\ ret' = ret
       ELSE /\ rReaders' = rReaders
            /\ pc' = [pc EXCEPT ![t] = "done"]
            /\ ret' = [ret EXCEPT ![t] = "Err"]
    /\ UNCHANGED <<info, state, settings, sReaders, sWriter, registry, counters,
                   op, ctx, arg, old, tmp, aid, hook, seen>>

\* if let Some(hooks) = ctx.get::<Arc<RwLock<HookRegistry>>>() followed by
\* hooks.read(): with the service the registration runs under the read guard,
\* without it the block is skipped
GetRegistry(t) ==
    /\ pc[t] = "a_get"
    /\ IF ctx[t]
       THEN /\ rReaders' = rReaders \cup {t}
            /\ pc' = [pc EXCEPT ![t] = "sc1"]
       ELSE /\ rReaders' = rReaders
            /\ pc' = [pc EXCEPT ![t] = "a_state"]
    /\ UNCHANGED <<info, state, settings, sReaders, sWriter, registry, counters,
                   op, locals>>

\* the read guard on the registry is dropped at the end of the if-let block
DropRegistry(t) ==
    /\ pc[t] = "a_drop"
    /\ rReaders' = rReaders \ {t}
    /\ pc' = [pc EXCEPT ![t] = "a_state"]
    /\ UNCHANGED <<info, state, settings, sReaders, sWriter, registry, counters,
                   op, locals>>

\* an activation that returns without writing the state
SetActiveForgotten(t) ==
    /\ pc[t] = "a_state"
    /\ state' = state
    /\ ret' = [ret EXCEPT ![t] = "Ok"]
    /\ pc' = [pc EXCEPT ![t] = "done"]
    /\ UNCHANGED <<info, settings, sReaders, sWriter, registry, rReaders,
                   counters, op, ctx, arg, old, tmp, aid, hook, seen>>

\* *self.state.write() = PluginState::Active; Ok(())
SetActive(t) ==
    /\ pc[t] = "a_state"
    /\ state' = Active
    /\ ret' = [ret EXCEPT ![t] = "Ok"]
    /\ pc' = [pc EXCEPT ![t] = "done"]
    /\ UNCHANGED <<info, settings, sReaders, sWriter, registry, rReaders,
                   counters, op, ctx, arg, old, tmp, aid, hook, seen>>

\* async fn activate(&self, ctx: &AppContext) -> Result<()>
activate(t) ==
    \/ /\ Enter(t, "activate", "a_get")
       /\ nActs < MaxActivations
       /\ \E c \in BOOLEAN : ctx' = [ctx EXCEPT ![t] = c]
       /\ nActs' = nActs + 1
       /\ aid' = [aid EXCEPT ![t] = nActs + 1]
       /\ UNCHANGED <<shared, nUpdates, nForeign, arg, old, tmp, hook, ret, seen>>
    \/ GetRegistry(t)
    \/ register_shortcodes(t)
    \/ register_widgets(t)
    \/ add_head_css(t)
    \/ add_content_filter(t)
    \/ DropRegistry(t)
    \/ SetActive(t)

\* a deactivation that removes the plugin's handlers from the registry
SetInactiveUnregistering(t) ==
    /\ pc[t] = "de_state"
    /\ state' = Inactive
    /\ registry' = SelectSeq(registry, LAMBDA e : e.owner = 0)
    /\ ret' = [ret EXCEPT ![t] = "Ok"]
    /\ pc' = [pc EXCEPT ![t] = "done"]
    /\ UNCHANGED <<info, settings, sReaders, sWriter, rReaders,
                   counters, op, ctx, arg, old, tmp, aid, hook, seen>>

\* *self.state.write() = PluginState::Inactive; Ok(())
SetInactive(t) ==
    /\ pc[t] = "de_state"
    /\ state' = Inactive
    /\ ret' = [ret EXCEPT ![t] = "Ok"]
    /\ pc' = [pc EXCEPT ![t] = "done"]
    /\ UNCHANGED <<info, settings, sReaders, sWriter, registry, rReaders,
                   counters, op, ctx, arg, old, tmp, aid, hook, seen>>

\* async fn deactivate(&self, _ctx: &AppContext) -> Result<()>
deactivate(t) ==
    \/ /\ Enter(t, "deactivate", "de_state")
       /\ UNCHANGED <<shared, counters, locals>>
    \/ SetInactive(t)

\* async fn on_startup(&self, _ctx: &AppContext) -> Result<()>
on_startup(t) ==
    /\ Enter(t, "on_startup", "done")
    /\ ret' = [ret EXCEPT ![t] = "Ok"]
    /\ UNCHANGED <<shared, counters, ctx, arg, old, tmp, aid, hook, seen>>

\* a shutdown hook that also deactivates the plugin
on_shutdown_deactivating(t) ==
    /\ Enter(t, "on_shutdown", "done")
    /\ state' = Inactive
    /\ ret' = [ret EXCEPT ![t] = "Ok"]
    /\ UNCHANGED <<info, settings, sReaders, sWriter, registry, rReaders,
                   counters, ctx, arg, old, tmp, aid, hook, seen>>

\* async fn on_shutdown(&self, _ctx: &AppContext) -> Result<()>
on_shutdown(t) ==
    /\ Enter(t, "on_shutdown", "done")
    /\ ret' = [ret EXCEPT ![t] = "Ok"]
    /\ UNCHANGED <<shared, counters, ctx, arg, old, tmp, aid, hook, seen>>

\* fn info(&self) -> &PluginInfo
GetInfo(t) ==
    /\ Enter(t, "info", "done")
    /\ seen' = [seen EXCEPT ![t] = info]
    /\ UNCHANGED <<shared, counters, ctx, arg, old, tmp, aid, hook, ret>>

\* fn state(&self) -> PluginState
GetState(t) ==
    /\ Enter(t, "state", "done")
    /\ ret' = [ret EXCEPT ![t] = state]
    /\ UNCHANGED <<shared, counters, ctx, arg, old, tmp, aid, hook, seen>>

\* ---------------------------------------------------------------- the host
\* the host dispatching a hook: it takes the registry's outer lock for
\* reading, runs the handlers, and drops the guard
HostDispatch(t) ==
    \/ /\ Enter(t, "dispatch", "d_get")
       /\ \E h \in HookNames : hook' = [hook EXCEPT ![t] = h]
       /\ UNCHANGED <<shared, counters, ctx, arg, old, tmp, aid, ret, seen>>
    \/ /\ pc[t] = "d_get"
       /\ rReaders' = rReaders \cup {t}
       /\ pc' = [pc EXCEPT ![t] = "d_run"]
       /\ UNCHANGED <<info, state, settings, sReaders, sWriter, registry, counters,
                      op, locals>>
    \/ /\ pc[t] = "d_run"
       /\ \E c \in Contents, d \in Dates :
             ret' = [ret EXCEPT ![t] = Dispatch(registry, hook[t], c, d)]
       /\ rReaders' = rReaders \ {t}
       /\ pc' = [pc EXCEPT ![t] = "done"]
       /\ UNCHANGED <<info, state, settings, sReaders, sWriter, registry, counters,
                      op, ctx, arg, old, tmp, aid, hook, seen>>

\* the caller takes the result; the thread is free for the next call
Return(t) ==
    /\ pc[t] = "done"
    /\ pc' = [pc EXCEPT ![t] = "idle"]
    /\ op' = [op EXCEPT ![t] = ""]
    /\ ctx' = [ctx EXCEPT ![t] = FALSE]
    /\ arg' = [arg EXCEPT ![t] = NoSettings]
    /\ old' = [old EXCEPT ![t] = NoSettings]
    /\ tmp' = [tmp EXCEPT ![t] = NoSettings]
    /\ aid' = [aid EXCEPT ![t] = 0]
    /\ hook' = [hook EXCEPT ![t] = ""]
    /\ ret' = [ret EXCEPT ![t] = ""]
    /\ seen' = [seen EXCEPT ![t] = NoInfo]
    /\ UNCHANGED <<shared, counters>>

ForeignPriorities == {5, 10}

\* another plugin registering a filter that appends its identifier
ForeignRegister ==
    /\ nForeign < MaxForeign
    /\ nForeign' = nForeign + 1
    /\ \E p \in ForeignPriorities :
          registry' = add_filter(registry, "the_content",
                                 Closure("append", <<>>,
                                         "H" \o ToString(nForeign + 1)),
                                 p, 0)
    /\ UNCHANGED <<info, state, settings, sReaders, sWriter, rReaders, nActs,
                   nUpdates, pc, op, locals>>

\* ------------------------------------------------------------ specifications
ThreadStep(t) ==
    \/ GetSettings(t)
    \/ update_settings(t)
    \/ activate(t)
    \/ deactivate(t)
    \/ on_startup(t)
    \/ on_shutdown(t)
    \/ GetInfo(t)
    \/ GetState(t)
    \/ HostDispatch(t)
    \/ Return(t)

\* no call is in progress on any thread other than t
Alone(t) == \A u \in Threads \ {t} : pc[u] = "idle"

\* The host makes its calls one after the other, from any thread.
Next == \E t \in Threads : Alone(t) /\ ThreadStep(t)

Spec == Init /\ [][Next]_vars

\* Threads read and replace the settings concurrently.
SettingsNext ==
    \E t \in Threads : GetSettings(t) \/ update_settings(t) \/ Return(t)

SpecSettings == Init /\ [][SettingsNext]_vars

\* Threads activate and deactivate the plugin concurrently while the host
\* dispatches hooks.
RegistryNext ==
    \E t \in Threads :
        \/ activate(t)
        \/ deactivate(t)
        \/ GetState(t)
        \/ HostDispatch(t)
        \/ Return(t)

SpecRegistry == Init /\ [][RegistryNext]_vars

\* The host activates the plugin and dispatches hooks, one call after the
\* other, and other plugins register their the_content filters in between.
OrderNext ==
    \/ \E t \in Threads :
          Alone(t) /\ (activate(t) \/ HostDispatch(t) \/ Return(t))
    \/ (\A t \in Threads : pc[t] = "idle") /\ ForeignRegister

SpecOrder == Init /\ [][OrderNext]_vars

\* Threads activate the plugin while others replace the settings.
SnapshotNext ==
    \E t \in Threads : activate(t) \/ update_settings(t) \/ Return(t)

SpecSnapshot == Init /\ [][SnapshotNext]_vars

\* One thread at a time activates the plugin while the others observe its
\* state; nothing deactivates it.
ObserveNext ==
    \E t \in Threads :
        \/ (\A u \in Threads \ {t} : op[u] # "activate") /\ activate(t)
        \/ GetState(t)
        \/ HostDispatch(t)
        \/ Return(t)

SpecObserve == Init /\ [][ObserveNext]_vars

\* Threads call activate, deactivate, update_settings, settings and state
\* concurrently while the host dispatches hooks; MaxMutations bounds the
\* activate and update_settings calls together.
CallBudget(t) == pc[t] # "idle" \/ nActs + nUpdates < MaxMutations

\* parking_lot::RwLock is task-fair: read() blocks while a writer waits for
\* the lock, so readers that keep arriving cannot keep a writer out.  A
\* thread about to call self.settings.write() counts as waiting.
WriterWaiting == \E w \in Threads : pc[w] = "u1"

\* the positions at which a thread calls self.settings.read()
ReadEntry == {"s1", "sc1", "wi1", "hc1"}

Admitted(t) == pc[t] \in ReadEntry => ~WriterWaiting

LiveNext ==
    \E t \in Threads :
        /\ Admitted(t)
        /\ \/ GetSettings(t)
           \/ CallBudget(t) /\ update_settings(t)
           \/ CallBudget(t) /\ activate(t)
           \/ deactivate(t)
           \/ GetState(t)
           \/ HostDispatch(t)
           \/ Return(t)

\* a call that has started keeps being scheduled, and a thread waiting for a
\* lock that is free again and again gets it
Progress(t) == pc[t] # "idle" /\ Admitted(t) /\ ThreadStep(t)

SpecLive ==
    /\ Init
    /\ [][LiveNext]_vars
    /\ \A t \in Threads : SF_vars(Progress(t))

\* ------------------------------------------------------------------ claims
Done(t, name) == pc[t] = "done" /\ op[t] = name

\* the entries of the registry that activations of this plugin registered
PluginEntries == {i \in DOMAIN registry : registry[i].owner # 0}

UpdatePcs == {"u1", "u2", "u3"}

\* C1: a plugin on which nothing was activated is Inactive; when activate has
\* returned Ok the state is Active, when deactivate has returned it is
\* Inactive, whatever the state was before, and state() reports that state.
StateMachine ==
    /\ nActs = 0 => state = Inactive
    /\ \A t \in Threads :
          /\ Done(t, "activate") /\ ret[t] = "Ok" => state = Active
          /\ Done(t, "deactivate") => state = Inactive
          /\ Done(t, "state") => ret[t] = state

\* C1 witness: the second activation has returned Ok
StateMachineWitness ==
    \E t \in Threads :
        Done(t, "activate") /\ ret[t] = "Ok" /\ aid[t] = 2 /\ state = Active

\* C2 (as claimed): when deactivate has returned, the registry holds none of
\* the handlers this plugin's activations registered.
DeactivateUnregisters ==
    \A t \in Threads : Done(t, "deactivate") => PluginEntries = {}

\* what the settings-dependent hooks produce, for every input
HandlerOutputs ==
    [h \in {"shortcode_hello", "widget_hello_world", "wp_head"},
     c \in Contents, d \in Dates |-> Dispatch(registry, h, c, d)]

\* C3: no step of update_settings changes what the registered
\* shortcode_hello, widget_hello_world and wp_head handlers produce.
SnapshotIsolation ==
    [][(\E t \in Threads : pc[t] \in UpdatePcs)
         => HandlerOutputs' = HandlerOutputs]_vars

\* C3 witness: the settings were replaced by the Howdy value after an
\* activation, and the shortcode still renders the captured default greeting
SnapshotIsolationWitness ==
    \E t \in Threads :
        /\ Done(t, "update_settings")
        /\ settings = HowdySettings
        /\ PluginEntries # {}
        /\ \A c \in Contents, d \in Dates :
              Dispatch(registry, "shortcode_hello", c, d)
                = ShortcodeHello(DefaultSettings, c, d)

\* C4: when update_settings(S) has completed the store holds exactly S, a
\* completed settings() returns the stored value, and no step outside
\* update_settings changes the store.
SettingsRoundTrip ==
    [][/\ \A t \in Threads :
             /\ (pc'[t] = "done" /\ op'[t] = "update_settings")
                  => settings' = arg'[t]
             /\ (pc'[t] = "done" /\ op'[t] = "settings")
                  => tmp'[t] = settings'
       /\ (\A t \in Threads : pc[t] \notin UpdatePcs) => settings' = settings
      ]_vars

\* C4 witness: settings() has returned the Howdy value after a second update
SettingsRoundTripWitness ==
    \E t \in Threads :
        Done(t, "settings") /\ tmp[t] = HowdySettings /\ nUpdates = 2

\* the values a read that ends now may return: during a write the value
\* before it and the value being written, otherwise the stored value
PreOrPost ==
    IF sWriter # 0 THEN {old[sWriter], arg[sWriter]} ELSE {settings}

\* C5: a settings() call that runs concurrently with update_settings returns
\* the complete value before the write or the complete value after it.
AtomicReplacement ==
    [][\A t \in Threads :
          (pc[t] = "s3" /\ pc'[t] = "done") => tmp'[t] \in PreOrPost]_vars

\* C5 witness: a read that overlapped an update_settings call has returned
\* the value from before the write
AtomicReplacementWitness ==
    \E r, w \in Threads :
        /\ Done(r, "settings")
        /\ pc[w] = "u1"
        /\ tmp[r] = settings
        /\ arg[w].greeting_text # tmp[r].greeting_text
        /\ arg[w].custom_css # tmp[r].custom_css

\* C7: an activation whose context has no registry registers nothing, takes
\* no registry guard, returns Ok and leaves the state Active.
MissingRegistry ==
    \A t \in Threads :
        (op[t] = "activate" /\ ~ctx[t]) =>
            /\ \A i \in DOMAIN registry : registry[i].owner # aid[t]
            /\ t \notin rReaders
            /\ pc[t] = "done" => (ret[t] = "Ok" /\ state = Active)

\* C7 witness: the first activation, without a registry, has returned
MissingRegistryWitness ==
    \E t \in Threads :
        /\ Done(t, "activate") /\ ~ctx[t]
        /\ ret[t] = "Ok" /\ state = Active /\ registry = <<>>

\* the positions of activate between its first and its last registration
MidRegistration ==
    {"wi1", "wi2", "wi3", "wi_add", "hc1", "hc2", "hc3", "hc_add", "cf_add"}

\* C8 (as claimed): no dispatch runs on the registry between the first and
\* the last registration of an activation.
RegistrationExcludesDispatch ==
    ~ \E a, d \in Threads : pc[a] \in MidRegistration /\ pc[d] = "d_run"

\* C9 (as claimed): the registrations of two activations never interleave:
\* between two entries of one activation there is no entry of another.
RegistrationsContiguous ==
    \A i, j, k \in PluginEntries :
        (i < j /\ j < k /\ registry[i].owner = registry[k].owner)
            => registry[j].owner = registry[i].owner

\* the handlers other plugins registered, in registration order
ForeignEntries == SelectSeq(registry, LAMBDA e : e.owner = 0)

\* C10: the the_content handlers run in the order (priority ascending, then
\* registration sequence ascending); the plugin's filter runs after every
\* handler of priority below 99 however the registrations were ordered; and
\* H1 at 10, H2 at 5, H3 at 10 registered in that order run as H2, H1, H3.
DispatchOrdering ==
    LET o == DispatchOrder(registry, "the_content", "filter")
    IN  /\ \A k, l \in DOMAIN o :
              k < l => RunsBefore(registry, o[k], o[l])
        /\ \A k, l \in DOMAIN o :
              (registry[o[k]].owner # 0 /\ registry[o[l]].priority < 99)
                  => l < k
        /\ [i \in DOMAIN ForeignEntries |-> ForeignEntries[i].priority]
             = <<10, 5, 10>>
           => \A d \in Dates :
                 apply_filters(ForeignEntries, "the_content", "", d) = "H2H1H3"

\* C10 witness: the plugin registered first, H1 at 10, H2 at 5 and H3 at 10
\* after it, and a dispatch of the_content has run them as H2, H1, H3 and the
\* plugin's filter last
DispatchOrderingWitness ==
    \E t \in Threads :
        /\ Done(t, "dispatch")
        /\ hook[t] = "the_content"
        /\ Len(registry) = 7
        /\ registry[4].owner # 0
        /\ ret[t] = TheContent("post" \o "H2H1H3")

FilterHooks == {"shortcode_hello", "widget_hello_world", "the_content"}

\* every filter hook returns every input unchanged
AllIdentity ==
    \A h \in FilterHooks, c \in Contents, d \in Dates :
        apply_filters(registry, h, c, d) = c

\* C11: apply_filters on a hook with no filter handlers returns its input
\* unchanged; before any activate, and when the first activate has returned
\* without a registry, that is so for all three filter hooks of the plugin.
IdentityElement ==
    /\ \A h \in FilterHooks, c \in Contents, d \in Dates :
          Matching(registry, h, "filter") = {}
              => apply_filters(registry, h, c, d) = c
    /\ nActs = 0 => AllIdentity
    /\ \A t \in Threads :
          (Done(t, "activate") /\ ~ctx[t] /\ aid[t] = 1) => AllIdentity

\* C11 witness: after an activation without a registry, a dispatch of
\* shortcode_hello has returned its input
IdentityElementWitness ==
    \E t \in Threads :
        /\ Done(t, "dispatch") /\ hook[t] = "shortcode_hello"
        /\ ret[t] = "post"
        /\ nActs = 1 /\ state = Active /\ registry = <<>>

TheDefaults ==
    [greeting_text |-> "Hello, World!", show_date |-> TRUE, custom_css |-> ""]

\* C12: until the first update_settings call the stored settings are
\* {"Hello, World!", true, ""} and settings() returns that value.
DefaultUntilUpdate ==
    nUpdates = 0 =>
        /\ settings = TheDefaults
        /\ \A t \in Threads : Done(t, "settings") => tmp[t] = TheDefaults

\* C12 witness: settings() has returned the defaults after two activations
\* and a deactivation, no update having been made
DefaultUntilUpdateWitness ==
    \E t \in Threads :
        /\ Done(t, "settings") /\ tmp[t] = TheDefaults
        /\ nUpdates = 0 /\ nActs = 2 /\ state = Inactive

\* C13: in every state the plugin's identity is the one it was built with
\* (id "hello-world", name "Hello World", version 1.0.0) and info() reports it.
InfoImmutable ==
    /\ info.id = "hello-world"
    /\ info.name = "Hello World"
    /\ info.version = <<1, 0, 0>>
    /\ \A t \in Threads : Done(t, "info") => seen[t] = info

\* C13 witness: info() has reported the identity after two activations and
\* two updates
InfoImmutableWitness ==
    \E t \in Threads :
        /\ Done(t, "info") /\ seen[t].id = "hello-world"
        /\ seen[t].version = <<1, 0, 0>>
        /\ nActs = 2 /\ nUpdates = 2

\* the activations that have entries in the registry
Owners == {registry[i].owner : i \in PluginEntries}

EntriesOf(a, h) ==
    {i \in PluginEntries : registry[i].owner = a /\ registry[i].hook = h}

\* C14: no step removes or changes a registry entry, no step of deactivate
\* changes the registry, an activation that found a registry has added one
\* entry under each of the four hooks when it returns, and with no activation
\* in progress the registry holds four entries for each such activation.
HandlerAccumulation ==
    /\ [][/\ Len(registry') >= Len(registry)
          /\ SubSeq(registry', 1, Len(registry)) = registry
          /\ (\E t \in Threads : op'[t] = "deactivate") => registry' = registry
         ]_vars
    /\ [](\A t \in Threads :
            (Done(t, "activate") /\ ctx[t]) =>
                \A h \in HookNames : Cardinality(EntriesOf(aid[t], h)) = 1)
    /\ []((\A t \in Threads : pc[t] \in {"idle", "done"}) =>
            /\ Cardinality(PluginEntries) = 4 * Cardinality(Owners)
            /\ \A h \in HookNames, a \in Owners :
                  Cardinality(EntriesOf(a, h)) = 1)

\* C14 witness: after two activations and a deactivation the registry holds
\* eight entries of the plugin
HandlerAccumulationWitness ==
    \E t \in Threads :
        /\ Done(t, "deactivate") /\ state = Inactive
        /\ Cardinality(PluginEntries) = 8
        /\ Cardinality(Owners) = 2

\* what an entry is registered as
Shape(e) == <<e.kind, e.hook, e.priority>>

FourShapes ==
    << <<"filter", "shortcode_hello", 10>>,
       <<"filter", "widget_hello_world", 10>>,
       <<"action", "wp_head", 10>>,
       <<"filter", "the_content", 99>> >>

\* the entries activation a registered, in registration order
RegisteredBy(a) == SelectSeq(registry, LAMBDA e : e.owner = a)

\* C16: when an activation that found a registry returns it has registered
\* exactly filter shortcode_hello at 10, filter widget_hello_world at 10,
\* action wp_head at 10 and filter the_content at 99, in that order, and the
\* plugin never has an entry of another shape.
WhatActivateRegisters ==
    /\ \A t \in Threads :
          (Done(t, "activate") /\ ctx[t]) =>
              [i \in 1..Len(RegisteredBy(aid[t])) |->
                  Shape(RegisteredBy(aid[t])[i])] = FourShapes
    /\ \A i \in PluginEntries :
          \E k \in 1..4 : Shape(registry[i]) = FourShapes[k]

\* C16 witness: the second activation with a registry has returned
WhatActivateRegistersWitness ==
    \E t \in Threads :
        Done(t, "activate") /\ ctx[t] /\ aid[t] = 2 /\ Len(registry) = 8

\* the shortcode and the widget render the stored settings
RendersStored ==
    \A c \in Contents, d \in Dates :
        /\ apply_filters(registry, "shortcode_hello", c, d)
             = ShortcodeHello(settings, c, d)
        /\ apply_filters(registry, "widget_hello_world", c, d)
             = WidgetHelloWorld(settings, c)

\* C17 (as claimed): when any activate after an update has returned, shortcode_hello and
\* widget_hello_world render the greeting of the settings stored by the
\* last update_settings.
ReactivationRenders ==
    \A t \in Threads : (nUpdates >= 1 /\ Done(t, "activate")) => RendersStored

\* C17 (amended): when an activate after an update whose context provides the
\* registry has returned, shortcode_hello and widget_hello_world render the greeting of
\* the settings stored by the last update_settings, not one captured earlier.
ReactivationRendersWithRegistry ==
    \A t \in Threads :
        (nUpdates >= 1 /\ Done(t, "activate") /\ ctx[t]) => RendersStored

\* C17 witness: the first activation captured the defaults, the settings
\* were replaced by the Howdy value, and the second activation has returned
ReactivationRendersWitness ==
    \E t \in Threads :
        /\ Done(t, "activate") /\ ctx[t] /\ aid[t] = 2
        /\ settings = HowdySettings
        /\ Len(registry) = 8
        /\ registry[1].handler.snap = <<DefaultSettings>>

\* C18: on_startup and on_shutdown return Ok and leave the state, the stored
\* settings and the registry as they were, in either state.
LifecycleHooksNoOp ==
    [][\A t \in Threads :
          (pc[t] = "idle" /\ op'[t] \in {"on_startup", "on_shutdown"}) =>
              /\ ret'[t] = "Ok"
              /\ state' = state
              /\ settings' = settings
              /\ registry' = registry]_vars

\* C18 witness: on_shutdown has returned Ok on an Active plugin with
\* replaced settings and registered handlers
LifecycleHooksNoOpWitness ==
    \E t \in Threads :
        /\ Done(t, "on_shutdown") /\ ret[t] = "Ok"
        /\ state = Active /\ settings = HowdySettings /\ Len(registry) = 4

\* C15 (as claimed): the handlers one activation registered all hold the
\* same settings value, also when update_settings runs concurrently.
OneSnapshotPerActivation ==
    \A i, j \in PluginEntries :
        (/\ registry[i].owner = registry[j].owner
         /\ registry[i].handler.snap # <<>>
         /\ registry[j].handler.snap # <<>>)
            => registry[i].handler.snap = registry[j].handler.snap

\* activation a has one entry under each of the four hooks
FourHandlers(a) == \A h \in HookNames : Cardinality(EntriesOf(a, h)) = 1

\* activation a has written the state: it is about to return or has returned
HasWritten(a) == \A t \in Threads : aid[t] = a => pc[t] = "done"

\* C19: with no deactivate, the state is Active only when some activation has
\* made its state write, and every activation that has made it and found a
\* registry has all four of its handlers in the registry.
RegistrationPrecedesActive ==
    /\ state = Active => \E a \in 1..nActs : HasWritten(a)
    /\ \A a \in Owners : HasWritten(a) => FourHandlers(a)
    /\ \A t \in Threads :
          (op[t] = "activate" /\ ctx[t] /\ pc[t] = "done")
              => FourHandlers(aid[t])

\* C19 witness: an observer has been told Active while the activation that
\* found a registry is returning with its four handlers registered
RegistrationPrecedesActiveWitness ==
    \E t, u \in Threads :
        /\ Done(u, "state") /\ ret[u] = Active
        /\ Done(t, "activate") /\ ctx[t] /\ aid[t] = 1
        /\ FourHandlers(1)

====
